---- MODULE Spec2Model ----
(***************************************************************************)
(* PacketStream (src/main/network/PacketStream.ts): a Transform stream     *)
(* that splits a byte stream into packets { type, data }.  Wire format:    *)
(* 1 byte type, 2 byte unsigned little-endian length, payload.             *)
(*                                                                         *)
(* A Buffer is modelled as a sequence of bytes (0..255), #buf as a         *)
(* sequence of Buffers.  The transport is modelled by a byte sequence      *)
(* `wire` chosen initially and a cursor `pos`: each _transform call is     *)
(* handed the next bytes of the wire, cut at an arbitrary place.           *)
(***************************************************************************)
EXTENDS Integers, Sequences, FiniteSets, TLC

\* ------------------------------------------------------------------------
\* Bounds of the model
\* ------------------------------------------------------------------------

\* Length of the wires of the small specification.
MaxWire == 7

\* Number of zero-length chunks fed in one behaviour.
MaxEmptyFeeds == 1

\* Chunk boundaries lie within this distance of the start or the end of the
\* wire (all boundaries of a wire no longer than twice the window plus one).
CutWindow == 3

\* Byte values the small wires are made of.
Bytes == {0, 1}

\* ------------------------------------------------------------------------
\* Program constants
\* ------------------------------------------------------------------------

HEADER_LENGTH == 3

\* Number of values of one byte (readUInt8 / readUInt16LE).
ByteBase == 256

\* Largest value of the unsigned 16 bit length field.
MaxPayload == 65535

VARIABLES
    wire,     \* the bytes the transport will deliver, in order
    pos,      \* number of bytes of the wire handed to _transform so far
    buf,      \* #buf: Buffer[]
    bufLen,   \* #bufLen
    pushed,   \* the packets output with this.push, in order
    last,     \* the last _transform call: its outcome and what it did
    nEmpty,   \* number of zero-length chunks accepted so far
    life,     \* "new" before the constructor ran, "failed" when it threw,
              \* "open" while chunks are accepted, "ended" after the input ended
    options   \* the options the constructor was given

vars == <<wire, pos, buf, bufLen, pushed, last, nEmpty, life, options>>

\* ------------------------------------------------------------------------
\* Buffer primitives
\* ------------------------------------------------------------------------

Min(a, b) == IF a < b THEN a ELSE b

\* Buffer.concat(list)
RECURSIVE BufferConcat(_)
BufferConcat(list) ==
    IF list = <<>> THEN <<>> ELSE Head(list) \o BufferConcat(Tail(list))

\* b.subarray(start): clamps start to the length of b
Subarray(b, start) == SubSeq(b, Min(start, Len(b)) + 1, Len(b))

\* b.subarray(0, end): clamps end to the length of b
SubarrayTo(b, end) == SubSeq(b, 1, Min(end, Len(b)))

\* b.readUInt8(offset) throws a RangeError unless offset < b.length
CanReadUInt8(b, offset) == offset + 1 <= Len(b)

ReadUInt8(b, offset) == b[offset + 1]

\* b.readUInt16LE(offset) throws a RangeError unless offset + 2 <= b.length
CanReadUInt16LE(b, offset) == offset + 2 <= Len(b)

\* (faulty variant: the two length bytes read big-endian)
ReadUInt16BE(b, offset) == ByteBase * b[offset + 1] + b[offset + 2]

ReadUInt16LE(b, offset) == b[offset + 1] + ByteBase * b[offset + 2]

\* Buffer.from(str, encoding): a string is a sequence of UTF-16 code units.
\* latin1 keeps the low byte of each code unit; utf8 writes a code unit below
\* 128 as itself and one below 2048 as two bytes.
RECURSIVE Utf8Bytes(_)
Utf8Bytes(chars) ==
    IF \A i \in 1..Len(chars) : chars[i] < 128 THEN chars
    ELSE LET c == Head(chars)
         IN  (IF c < 128 THEN <<c>>
              ELSE <<192 + (c \div 64), 128 + (c % 64)>>) \o Utf8Bytes(Tail(chars))

Latin1Bytes(chars) ==
    SubSeq([i \in 1..Len(chars) |-> chars[i] % ByteBase], 1, Len(chars))

BufferFrom(chars, encoding) ==
    IF encoding = "latin1" THEN Latin1Bytes(chars) ELSE Utf8Bytes(chars)

\* ------------------------------------------------------------------------
\* #tryReadPacket
\* ------------------------------------------------------------------------

\* line 78: wait for a complete header
HeaderIncomplete(len) == len < HEADER_LENGTH

\* (faulty variant: waits for one byte more than the packet)
PacketIncompleteOffByOne(len, packetLength) == len <= HEADER_LENGTH + packetLength

\* (faulty variant: the header is not counted)
PacketIncompleteNoHeader(len, packetLength) == len < packetLength

\* line 88: wait for the complete packet data
PacketIncomplete(len, packetLength) == len < HEADER_LENGTH + packetLength

\* (faulty variant: the count is not reduced)
ConsumedKeepLen(len, packetLength) == len

\* line 99
Consumed(len, packetLength) == len - (HEADER_LENGTH + packetLength)

\* line 84
HeaderBuf(b, shouldConcatHeader) ==
    IF shouldConcatHeader THEN <<BufferConcat(b)>> ELSE b

\* (faulty variant: the header is not trimmed off)
JoinedNoTrim(b) == BufferConcat(b)

\* lines 92-93: header trimmed off, the rest in one Buffer
Joined(b) == BufferConcat(<<Subarray(b[1], HEADER_LENGTH)>> \o Tail(b))

\* The state of one _transform call: #buf, #bufLen, the packets pushed, how
\* the call ended so far (ret), and a record of what the call has done:
\*   pushedBefore  packets pushed before the call
\*   attempts      calls of #tryReadPacket
\*   concats       executions of line 84, lateConcats those in a call of
\*                 #tryReadPacket that was not the first of the _transform call
\*   joined        number of Buffers in #buf when line 84 last ran
\*   hdrReads      executions of lines 86-87, shortReads those that found
\*                 fewer than HEADER_LENGTH bytes in #buf[0]
\*   lenOK         #bufLen was the total length of #buf, and not negative, at
\*                 every entry to and return from #tryReadPacket
\*   callbacks     invocations of callback, cbEmitted the packets the call
\*                 had pushed when callback was last invoked
LenOK(st) == st.bufLen >= 0 /\ st.bufLen = Len(BufferConcat(st.buf))

Entered(st) ==
    [st EXCEPT !.attempts = @ + 1, !.lenOK = @ /\ LenOK(st)]

Returned(st, value) ==
    [st EXCEPT !.ret = value, !.lenOK = @ /\ LenOK(st)]

\* lines 82-85: the buffers the header is read from
Concatenated(st, shouldConcatHeader) ==
    IF shouldConcatHeader
    THEN [st EXCEPT !.buf = HeaderBuf(st.buf, shouldConcatHeader),
                    !.concats = @ + 1,
                    !.lateConcats = IF st.attempts > 1 THEN @ + 1 ELSE @,
                    !.joined = Len(st.buf)]
    ELSE [st EXCEPT !.buf = HeaderBuf(st.buf, shouldConcatHeader)]

\* ret is what #tryReadPacket returns: "true", "false", or "throw" when a
\* read of the header throws.
TryReadPacket(st0, shouldConcatHeader) ==
    LET st == Entered(st0)
    IN  IF HeaderIncomplete(st.bufLen)
        THEN Returned(st, "false")
        ELSE LET c == Concatenated(st, shouldConcatHeader)
                 hb == c.buf
             IN  IF \/ hb = <<>>
                    \/ ~CanReadUInt8(hb[1], 0)
                    \/ ~CanReadUInt16LE(hb[1], 1)
                 THEN [c EXCEPT !.hdrReads = @ + 1, !.shortReads = @ + 1,
                                !.ret = "throw"]
                 ELSE LET packetType == ReadUInt8(hb[1], 0)
                          packetLength == ReadUInt16LE(hb[1], 1)
                          h == [c EXCEPT !.hdrReads = @ + 1]
                      IN  IF PacketIncomplete(st.bufLen, packetLength)
                          THEN Returned(h, "false")
                          ELSE LET whole == Joined(hb)
                               IN  Returned(
                                     [h EXCEPT
                                        !.buf = <<Subarray(whole, packetLength)>>,
                                        !.bufLen = Consumed(st.bufLen, packetLength),
                                        !.pushed = Append(st.pushed,
                                              [type |-> packetType,
                                               data |-> SubarrayTo(whole, packetLength)])],
                                     "true")

\* (faulty variant: one attempt per chunk)
ReadOnce(st, shouldConcatHeader) == TryReadPacket(st, shouldConcatHeader)

\* (faulty variant: shouldConcatHeader is not reset after a packet)
RECURSIVE ReadLoopKeepFlag(_, _)
ReadLoopKeepFlag(st, shouldConcatHeader) ==
    LET r == TryReadPacket(st, shouldConcatHeader)
    IN  IF r.ret = "true" THEN ReadLoopKeepFlag(r, shouldConcatHeader) ELSE r

\* lines 62-64: while (this.#tryReadPacket(shouldConcatHeader)) shouldConcatHeader = false
RECURSIVE ReadLoop(_, _)
ReadLoop(st, shouldConcatHeader) ==
    LET r == TryReadPacket(st, shouldConcatHeader)
    IN  IF r.ret = "true" THEN ReadLoop(r, FALSE) ELSE r

\* callback(error, null) / callback()
Callback(st, error) ==
    [st EXCEPT !.callbacks = @ + 1,
               !.cbEmitted = Len(st.pushed) - st.pushedBefore,
               !.ret = IF error THEN "error" ELSE "ok"]

\* (faulty variants: the header is never, or always, concatenated)
ShouldConcatNever(len) == FALSE

ShouldConcatAlways(len) == TRUE

\* line 60
ShouldConcat(len) == len < HEADER_LENGTH

\* ------------------------------------------------------------------------
\* _transform
\* ------------------------------------------------------------------------

\* (faulty variant: the chunk is stored before its type is looked at)
RejectedKeepsChunk(st) == Callback([st EXCEPT !.buf = Append(st.buf, <<0>>)], TRUE)

\* lines 53-57: the chunk is neither a Buffer nor a string
Rejected(st) == Callback(st, TRUE)

\* (faulty variant: callback() comes before the packets are read)
AcceptedCallbackFirst(st, chunkBuf) ==
    LET r == ReadLoop(Callback([st EXCEPT !.buf = Append(st.buf, chunkBuf),
                                          !.bufLen = st.bufLen + Len(chunkBuf)],
                               FALSE),
                      ShouldConcat(st.bufLen))
    IN  IF r.ret = "throw" THEN r ELSE [r EXCEPT !.ret = "ok"]

\* lines 59-65: chunkBuf is the chunk as a Buffer
Accepted(st, chunkBuf) ==
    LET r == ReadLoop([st EXCEPT !.buf = Append(st.buf, chunkBuf),
                                 !.bufLen = st.bufLen + Len(chunkBuf)],
                      ShouldConcat(st.bufLen))
    IN  IF r.ret = "throw" THEN r ELSE Callback(r, FALSE)

\* A chunk is [kind |-> "Buffer", bytes |-> ...], [kind |-> "string",
\* chars |-> ...] or [kind |-> "object"].
Transform(st, chunk, encoding) ==
    IF chunk.kind = "Buffer" THEN Accepted(st, chunk.bytes)
    ELSE IF chunk.kind = "string" THEN Accepted(st, BufferFrom(chunk.chars, encoding))
    ELSE Rejected(st)

\* A call that has not done anything yet, on the given fields.
CallOn(b, len, out) ==
    [buf |-> b, bufLen |-> len, pushed |-> out, ret |-> "none",
     pushedBefore |-> Len(out), attempts |-> 0, concats |-> 0, lateConcats |-> 0,
     joined |-> 0, hdrReads |-> 0, shortReads |-> 0, lenOK |-> TRUE,
     callbacks |-> 0, cbEmitted |-> 0]

\* lines 30-31
Fresh == CallOn(<<>>, 0, <<>>)

Framer == CallOn(buf, bufLen, pushed)

\* What is kept of a call once it is over.
Outcome(r) ==
    [ret |-> r.ret, emitted |-> Len(r.pushed) - r.pushedBefore,
     attempts |-> r.attempts, concats |-> r.concats, lateConcats |-> r.lateConcats,
     joined |-> r.joined, hdrReads |-> r.hdrReads, shortReads |-> r.shortReads,
     lenOK |-> r.lenOK, callbacks |-> r.callbacks, cbEmitted |-> r.cbEmitted]

\* ------------------------------------------------------------------------
\* The transport
\* ------------------------------------------------------------------------

\* The places where the next chunk may end.
Cuts == {c \in pos..Len(wire) : c <= CutWindow \/ c >= Len(wire) - CutWindow}

NextBytes(c) == SubSeq(wire, pos + 1, c)

\* Strings, with their encoding, that carry the given bytes: the bytes as
\* code units, the same with a high byte that latin1 drops, and for bytes
\* below 128 the utf8 string.
StringsFor(bytes) ==
    {<<SubSeq([i \in 1..Len(bytes) |-> bytes[i] + hi * ByteBase], 1, Len(bytes)),
       "latin1">> : hi \in {0, 1}}
    \cup (IF \A i \in 1..Len(bytes) : bytes[i] < 128 THEN {<<bytes, "utf8">>} ELSE {})

Deliver(r, c) ==
    /\ buf' = r.buf
    /\ bufLen' = r.bufLen
    /\ pushed' = r.pushed
    /\ pos' = c
    /\ last' = Outcome(r)
    /\ UNCHANGED <<wire, life, options>>

\* _transform with a Buffer chunk
FeedBuffer ==
    \E c \in Cuts :
        /\ life = "open"
        /\ c > pos \/ nEmpty < MaxEmptyFeeds
        /\ nEmpty' = IF c = pos THEN nEmpty + 1 ELSE nEmpty
        /\ Deliver(Transform(Framer, [kind |-> "Buffer", bytes |-> NextBytes(c)], "buffer"),
                   c)

\* _transform with a string chunk
FeedString ==
    \E c \in Cuts :
        \E s \in StringsFor(NextBytes(c)) :
            /\ life = "open"
            /\ c > pos \/ nEmpty < MaxEmptyFeeds
            /\ nEmpty' = IF c = pos THEN nEmpty + 1 ELSE nEmpty
            /\ Deliver(Transform(Framer, [kind |-> "string", chars |-> s[1]], s[2]), c)

\* _transform with a chunk that is neither
FeedObject ==
    /\ life = "open"
    /\ Deliver(Transform(Framer, [kind |-> "object"], "buffer"), pos)
    /\ UNCHANGED nEmpty

\* (faulty variant: the bytes left over are pushed as a packet)
FlushResidual(st) ==
    [st EXCEPT !.pushed = Append(@, [type |-> 0, data |-> BufferConcat(st.buf)]),
               !.ret = "end"]

\* The class defines neither _flush nor _final: when the input ends the
\* stream ends without a further call into the framer.
Flush(st) == [st EXCEPT !.ret = "end"]

\* The input ends.
End ==
    /\ life = "open"
    /\ life' = "ended"
    /\ LET r == Flush(Framer)
       IN  /\ buf' = r.buf
           /\ bufLen' = r.bufLen
           /\ pushed' = r.pushed
           /\ last' = Outcome(r)
    /\ UNCHANGED <<wire, pos, nEmpty, options>>

\* ------------------------------------------------------------------------
\* constructor
\* ------------------------------------------------------------------------

\* The values an option is given; the last two are the truthy ones.
OptionValues == {"undefined", "false", "0", "true", "1"}

Truthy(v) == v \in {"true", "1"}

\* new PacketStream()
NoOptions ==
    [given |-> FALSE, objectMode |-> "undefined", writableObjectMode |-> "undefined"]

OptionSets ==
    {NoOptions} \cup
    {[given |-> TRUE, objectMode |-> a, writableObjectMode |-> b] :
        a \in OptionValues, b \in OptionValues}

\* (faulty variant: writableObjectMode is not looked at)
ConstructorThrowsObjectModeOnly(o) == o.given /\ Truthy(o.objectMode)

\* line 23
ConstructorThrows(o) ==
    o.given /\ (Truthy(o.writableObjectMode) \/ Truthy(o.objectMode))

\* The fields of an object whose constructor has not set them.
Unset == [buf |-> <<<<-1>>>>, bufLen |-> -1]

InitFramer ==
    /\ pos = 0
    /\ buf = Fresh.buf
    /\ bufLen = Fresh.bufLen
    /\ pushed = Fresh.pushed
    /\ last = Outcome(Fresh)
    /\ nEmpty = 0
    /\ life = "open"
    /\ options = NoOptions

Wires == [1..MaxWire -> Bytes]

Init ==
    /\ wire \in Wires
    /\ InitFramer

Next == FeedBuffer \/ FeedString \/ FeedObject \/ End

Spec == Init /\ [][Next]_vars

\* ------------------------------------------------------------------------
\* The same framer on wires that carry a packet of the maximum length
\* ------------------------------------------------------------------------

Payload(n) == [i \in 1..n |-> i % ByteBase]

\* A packet of the largest type and of MaxPayload bytes, then the first two
\* bytes of a header.
MaxWires ==
    {<<t, ByteBase - 1, ByteBase - 1>> \o Payload(MaxPayload) \o <<1, 0>> :
        t \in {ByteBase - 1}}

InitMax ==
    /\ wire \in MaxWires
    /\ InitFramer

SpecMax == InitMax /\ [][Next]_vars

\* ------------------------------------------------------------------------
\* The framer from before its construction
\* ------------------------------------------------------------------------

\* new PacketStream(options)
Construct ==
    /\ life = "new"
    /\ \E o \in OptionSets :
          /\ options' = o
          /\ IF ConstructorThrows(o)
             THEN /\ life' = "failed"
                  /\ UNCHANGED <<buf, bufLen>>
             ELSE /\ life' = "open"
                  /\ buf' = Fresh.buf
                  /\ bufLen' = Fresh.bufLen
    /\ UNCHANGED <<wire, pos, pushed, last, nEmpty>>

\* Wires of one repeated byte.
CtorWires == {[i \in 1..MaxWire |-> b] : b \in Bytes}

InitCtor ==
    /\ wire \in CtorWires
    /\ pos = 0
    /\ buf = Unset.buf
    /\ bufLen = Unset.bufLen
    /\ pushed = <<>>
    /\ last = Outcome(Fresh)
    /\ nEmpty = 0
    /\ life = "new"
    /\ options = NoOptions

NextCtor == Construct \/ Next

SpecCtor == InitCtor /\ [][NextCtor]_vars

\* ------------------------------------------------------------------------
\* The wire format and the views of the state the properties are stated on
\* ------------------------------------------------------------------------

\* type byte, 2 byte little-endian length, payload
EncodePacket(p) ==
    <<p.type, Len(p.data) % ByteBase, Len(p.data) \div ByteBase>> \o p.data

RECURSIVE EncodeAll(_)
EncodeAll(ps) ==
    IF ps = <<>> THEN <<>> ELSE EncodePacket(Head(ps)) \o EncodeAll(Tail(ps))

\* The bytes accepted so far.
Fed == SubSeq(wire, 1, pos)

\* The logical content of #buf.
Buffered == BufferConcat(buf)

\* The length a header at the front of b declares.
Declared(b) == b[2] + ByteBase * b[3]

\* Every packet whose encoding fits a small wire, and every list of them that
\* does, with its encoding.
SmallPackets ==
    {[type |-> t, data |-> d] :
        t \in Bytes, d \in UNION {[1..n -> Bytes] : n \in 0..(MaxWire - HEADER_LENGTH)}}

SmallEncodings ==
    {e \in {<<EncodeAll(ps), ps>> :
              ps \in UNION {[1..n -> SmallPackets] : n \in 0..(MaxWire \div HEADER_LENGTH)}} :
        Len(e[1]) <= MaxWire}

\* ------------------------------------------------------------------------
\* Properties
\* ------------------------------------------------------------------------

\* C1 Round trip: whenever the bytes accepted so far are the concatenated
\* encodings of a list of packets, however they were cut into chunks, the
\* packets pushed are exactly that list, in order, and nothing stays buffered.
RoundTrip ==
    \A e \in SmallEncodings :
        e[1] = Fed => /\ pushed = e[2]
                      /\ bufLen = 0
                      /\ Buffered = <<>>

\* Two packets, the first with data, delivered in more than one chunk.
RoundTripWitness ==
    /\ pos = Len(wire)
    /\ Len(pushed) = 2
    /\ pushed[1].data # <<>>
    /\ last.emitted = 1
    /\ bufLen = 0
    /\ Fed = EncodeAll(pushed)

\* C2 Chunk-boundary invariance: however the bytes accepted so far were cut
\* into chunks, the packets pushed, the logical buffer content and the byte
\* count are those a fresh framer has after one chunk holding all the bytes.
ChunkInvariance ==
    LET one == Accepted(Fresh, Fed)
    IN  /\ pushed = one.pushed
        /\ Buffered = BufferConcat(one.buf)
        /\ bufLen = one.bufLen

\* All bytes fed, not ending on a packet boundary, the rest stored in
\* several chunks, one of them empty.
ChunkInvarianceWitness ==
    /\ pos = Len(wire)
    /\ Len(pushed) >= 1
    /\ Len(buf) >= 3
    /\ nEmpty = 1
    /\ bufLen >= 1
    /\ bufLen < HEADER_LENGTH

\* C3 Conservation: the encodings of the packets pushed so far, followed by
\* the logical content of #buf, are exactly the bytes accepted so far.
Conservation == EncodeAll(pushed) \o Buffered = Fed

ConservationWitness ==
    /\ Len(pushed) >= 1
    /\ pushed[1].data # <<>>
    /\ bufLen >= 1
    /\ Len(buf) >= 2

\* C4 Eager emission: when a call has returned no complete packet is
\* buffered: fewer than 3 bytes are, or fewer than 3 plus the length the
\* header at the front declares.
EagerEmission ==
    \/ bufLen < HEADER_LENGTH
    \/ /\ Len(Buffered) >= HEADER_LENGTH
       /\ bufLen < HEADER_LENGTH + Declared(Buffered)

\* One chunk completed several packets and left a partial one.
EagerEmissionWitness ==
    /\ last.emitted >= 2
    /\ bufLen >= 1
    /\ Buffered = SubSeq(wire, pos - bufLen + 1, pos)

\* C5 Partial-state stability: while only a proper prefix of the first
\* packet of the wire has been fed nothing is pushed; once exactly its bytes
\* have been fed that packet alone is pushed and nothing is buffered.
FirstPacketEnd == HEADER_LENGTH + wire[2] + ByteBase * wire[3]

PartialStability ==
    /\ pos < FirstPacketEnd => pushed = <<>>
    /\ pos = FirstPacketEnd =>
           /\ pushed = <<[type |-> wire[1], data |-> SubSeq(wire, 4, FirstPacketEnd)]>>
           /\ bufLen = 0
           /\ Buffered = <<>>

\* A packet with data, completed by a chunk that was not the first.
PartialStabilityWitness ==
    /\ pos = FirstPacketEnd
    /\ FirstPacketEnd > HEADER_LENGTH
    /\ nEmpty = 1
    /\ Len(pushed) = 1

\* C6 Non-byte input rejection: a call that accepts no chunk (neither the
\* cursor nor the count of empty chunks moves, and the input has not ended)
\* reports an error, pushes
\* nothing and leaves #buf and #bufLen as they were.
Rejection ==
    [][(pos' = pos /\ nEmpty' = nEmpty /\ life' = life) =>
          /\ last'.ret = "error"
          /\ last'.emitted = 0
          /\ pushed' = pushed
          /\ buf' = buf
          /\ bufLen' = bufLen]_vars

\* A chunk rejected while a partial packet is buffered, after a packet.
RejectionWitness ==
    /\ last.ret = "error"
    /\ bufLen >= 1
    /\ Len(pushed) >= 1

\* C7 (as claimed) Zero-length chunk: a call with a zero-length chunk pushes
\* no packet, reports no error and leaves #buf and #bufLen unchanged.
ZeroLengthNoOp ==
    [][nEmpty' = nEmpty + 1 =>
          /\ last'.ret = "ok"
          /\ last'.emitted = 0
          /\ pushed' = pushed
          /\ buf' = buf
          /\ bufLen' = bufLen]_vars

\* C7 (amended) Zero-length chunk: a call with a zero-length chunk pushes no
\* packet, reports no error and leaves #bufLen and the logical content of
\* #buf unchanged; the empty chunk is stored at the end of #buf and no other
\* stored chunk changes.
ZeroLengthLogicalNoOp ==
    [][nEmpty' = nEmpty + 1 =>
          /\ last'.ret = "ok"
          /\ last'.emitted = 0
          /\ pushed' = pushed
          /\ buf' = Append(buf, <<>>)
          /\ BufferConcat(buf') = Buffered
          /\ bufLen' = bufLen]_vars

\* An empty chunk stored behind a complete header that waits for its data.
ZeroLengthWitness ==
    /\ nEmpty = 1
    /\ last.ret = "ok"
    /\ bufLen >= HEADER_LENGTH
    /\ Len(buf) >= 2
    /\ buf[Len(buf)] = <<>>

\* C8 Zero-length payload: when a chunk leaves at the front of the buffer a
\* complete header whose length field is 0, the same call pushes first the
\* packet of that type with empty data, for which exactly the 3 header bytes
\* are consumed; and no call returns with such a header at the front.
ZeroLengthPayload ==
    [][LET appended == Buffered \o SubSeq(wire, pos + 1, pos')
           fresh == SubSeq(pushed', Len(pushed) + 1, Len(pushed'))
           left == BufferConcat(buf')
       IN  /\ (pos' > pos /\ Len(appended) >= HEADER_LENGTH /\ Declared(appended) = 0) =>
                 /\ Len(pushed') > Len(pushed)
                 /\ SubSeq(pushed', 1, Len(pushed)) = pushed
                 /\ fresh[1] = [type |-> appended[1], data |-> <<>>]
                 /\ EncodePacket(fresh[1]) = SubSeq(appended, 1, HEADER_LENGTH)
                 /\ EncodeAll(fresh) \o left = appended
                 /\ bufLen' = Len(appended) - Len(EncodeAll(fresh))
           /\ ~(bufLen' >= HEADER_LENGTH /\ Len(left) >= HEADER_LENGTH /\ Declared(left) = 0)
      ]_vars

\* A header with length 0 and no byte after it has been fed.
ZeroLengthPayloadWitness ==
    /\ pos = HEADER_LENGTH
    /\ Declared(wire) = 0
    /\ pushed = <<[type |-> wire[1], data |-> <<>>]>>
    /\ bufLen = 0

\* C9 Header decoding: every packet pushed has the type of byte 0 of its
\* header and as data exactly the byte1 + 256 * byte2 bytes that follow the
\* header on the wire, all of which have been fed; a packet that declares
\* 65535 bytes is pushed with all 65535.
RECURSIVE PacketStart(_)
PacketStart(k) ==
    IF k = 1 THEN 0
    ELSE PacketStart(k - 1) + HEADER_LENGTH + Len(pushed[k - 1].data)

BoundedBuffer == bufLen <= MaxPayload + HEADER_LENGTH

\* All but the last byte of a packet of 65535 bytes is buffered.
BoundedBufferWitness ==
    /\ bufLen = MaxPayload + HEADER_LENGTH - 1
    /\ pushed = <<>>
    /\ last.ret = "ok"

\* A step that is a _transform call with a Buffer or string chunk.
AcceptingStep == pos' > pos \/ nEmpty' > nEmpty

\* C11 Truncated stream: when the input ends the framer pushes no packet for
\* the bytes left in the buffer, reports no error and keeps its state; the
\* packets pushed are those complete before the end, the bytes left over are
\* an incomplete packet.
TruncatedStream ==
    [][(life = "open" /\ life' = "ended") =>
          /\ last'.ret = "end"
          /\ last'.emitted = 0
          /\ last'.callbacks = 0
          /\ pushed' = pushed
          /\ buf' = buf
          /\ bufLen' = bufLen
          /\ EncodeAll(pushed') \o BufferConcat(buf') = SubSeq(wire, 1, pos)
          /\ \/ Len(BufferConcat(buf')) < HEADER_LENGTH
             \/ Len(BufferConcat(buf')) < HEADER_LENGTH + Declared(BufferConcat(buf'))
      ]_vars

\* The input ended after a packet and the header of the next one.
TruncatedStreamWitness ==
    /\ life = "ended"
    /\ Len(pushed) >= 1
    /\ bufLen >= HEADER_LENGTH
    /\ pos < Len(wire)

\* C12 Header contiguity: every read of the header found at least 3 bytes in
\* #buf[0] (a shorter #buf[0] makes the read throw), whatever chunks, empty
\* chunks and rejected inputs came before.
HeaderContiguity ==
    /\ last.shortReads = 0
    /\ last.ret # "throw"

\* The header was read after its bytes had come in three chunks.
HeaderContiguityWitness ==
    /\ last.hdrReads >= 1
    /\ last.concats = 1
    /\ last.joined >= 3
    /\ nEmpty = 0
    /\ pos = HEADER_LENGTH

\* C13 Cached length: at every entry to and return from #tryReadPacket and
\* when a call has returned, #bufLen is the sum of the lengths of the chunks
\* in #buf and is not negative.
CachedLength ==
    /\ bufLen >= 0
    /\ bufLen = Len(Buffered)
    /\ last.lenOK

\* After a call that pushed two packets and kept bytes in several chunks.
CachedLengthWitness ==
    /\ last.attempts >= 3
    /\ bufLen >= 1
    /\ Len(pushed) >= 2

\* C14 Acknowledgment ordering: every _transform call invokes callback once;
\* for a Buffer or string chunk without an error and after all the packets
\* the call pushes, for any other chunk with an error and without a packet.
AckOrdering ==
    [][(life = "open" /\ life' = "open") =>
          /\ last'.callbacks = 1
          /\ last'.emitted = Len(pushed') - Len(pushed)
          /\ IF AcceptingStep
             THEN /\ last'.ret = "ok"
                  /\ last'.cbEmitted = last'.emitted
             ELSE /\ last'.ret = "error"
                  /\ last'.cbEmitted = 0
                  /\ last'.emitted = 0
      ]_vars

\* A call that pushed two packets and then invoked callback.
AckOrderingWitness ==
    /\ last.ret = "ok"
    /\ last.callbacks = 1
    /\ last.emitted >= 2
    /\ last.cbEmitted = last.emitted

\* C15 No error state for byte input: a call with a Buffer or string chunk
\* never reports an error and never throws; while the first packet of the
\* wire is incomplete nothing is pushed.
NoErrorState ==
    [][AcceptingStep =>
          /\ last'.ret = "ok"
          /\ last'.callbacks = 1
          /\ pos' < FirstPacketEnd => pushed' = <<>>
      ]_vars

\* A header of type 255 declaring 65535 bytes waits for its data.
NoErrorStateWitness ==
    /\ last.ret = "ok"
    /\ pushed = <<>>
    /\ bufLen > HEADER_LENGTH
    /\ wire[1] = ByteBase - 1
    /\ Declared(buf[1]) = MaxPayload

\* C16 Termination of extraction: a call makes one attempt more than it
\* pushes packets, pushes at most a third of the bytes buffered after the
\* chunk was appended, reduces #bufLen by 3 plus the data length for each
\* packet, and ends on an attempt that finds fewer than 3 bytes or an
\* incomplete packet.
Termination ==
    [][AcceptingStep =>
          LET after == bufLen + (pos' - pos)
              fresh == SubSeq(pushed', Len(pushed) + 1, Len(pushed'))
              left == BufferConcat(buf')
          IN  /\ last'.attempts = last'.emitted + 1
              /\ last'.emitted = Len(fresh)
              /\ HEADER_LENGTH * last'.emitted <= after
              /\ bufLen' = after - Len(EncodeAll(fresh))
              /\ last'.emitted >= 1 => bufLen' <= after - HEADER_LENGTH
              /\ \/ bufLen' < HEADER_LENGTH
                 \/ /\ Len(left) >= HEADER_LENGTH
                    /\ bufLen' < HEADER_LENGTH + Declared(left)
      ]_vars

\* Three attempts in one call: two packets, then too few bytes.
TerminationWitness ==
    /\ last.attempts = 3
    /\ last.emitted = 2
    /\ bufLen < HEADER_LENGTH

\* C17 Constructor: with options whose objectMode or writableObjectMode is
\* truthy the constructor throws and no field is set, nor does anything
\* happen afterwards; otherwise it leaves #buf empty and #bufLen 0.
ConstructorContract ==
    [][/\ (life = "new" /\ life' # "new") =>
             IF options'.given /\ (Truthy(options'.objectMode)
                                   \/ Truthy(options'.writableObjectMode))
             THEN /\ life' = "failed"
                  /\ buf' = Unset.buf
                  /\ bufLen' = Unset.bufLen
             ELSE /\ life' = "open"
                  /\ buf' = <<>>
                  /\ bufLen' = 0
       /\ life = "failed" => UNCHANGED vars
      ]_vars

\* The constructor threw for a truthy writableObjectMode alone.
ConstructorContractWitness ==
    /\ life = "failed"
    /\ options.writableObjectMode = "1"
    /\ options.objectMode = "false"
    /\ buf = Unset.buf

\* C18 Header coalescing policy: a call executes the concat of line 84 at
\* most once, never in an attempt after the first, and only if fewer than 3
\* bytes were buffered before the chunk was appended and at least 3 after.
CoalescingPolicy ==
    [][AcceptingStep =>
          /\ last'.concats <= 1
          /\ last'.lateConcats = 0
          /\ last'.concats = 1 =>
                /\ bufLen < HEADER_LENGTH
                /\ bufLen + (pos' - pos) >= HEADER_LENGTH
      ]_vars

\* One concat in a call that went on to a second and a third attempt.
CoalescingPolicyWitness ==
    /\ last.concats = 1
    /\ last.attempts >= 3
====
